---- MODULE Spec2Model ----
(***************************************************************************)
(* The arcane_project_deployment resource of terraform-provider-arcane:    *)
(* Create (with the waitForAgent reachability wait), Read, Update and      *)
(* Delete over the backend's project endpoints, driven by Terraform's      *)
(* plan/apply cycle as the resource's Schema declares it.                  *)
(* Time is counted in whole seconds.                                       *)
(***************************************************************************)
EXTENDS Integers, Sequences, FiniteSets, TLC

\* ------------------------------------------------------------------ bounds

\* An operation may begin only while the clock is at most MaxStart; an
\* operation that has begun always runs to its end.
MaxStart == 3
\* A reachability probe (one project GET) takes 1..MaxProbeDur seconds.
MaxProbeDur == 2
\* The backend generates at most MaxKeys API keys.
MaxKeys == 2

\* ------------------------------------------------------- program constants

InitialBackoff == 5
BackoffCap == 30
DefaultWaitTimeout == 120
StatusNotFound == 404
StatusErrorFloor == 400

\* ------------------------------------------------------------ value domain

\* types.String / types.Bool values: a known value, null or unknown.
Null == "<null>"
Unknown == "<unknown>"

Min(a, b) == IF a <= b THEN a ELSE b

\* Identifiers are arbitrary strings: the schema declares no validator.
EnvIDs == {"env1", "env/2"}
ProjectIDs == {"proj1", "proj2"}
Statuses == {"running", "stopped"}

\* types.Map of strings: null, or a set of (key, value) pairs.
NullMap == [isNull |-> TRUE, elems |-> {}]
MapOf(pairs) == [isNull |-> FALSE, elems |-> pairs]
TriggerMaps ==
    { NullMap, MapOf({}), MapOf({<<"compose", "v1">>}), MapOf({<<"compose", "v2">>}),
      MapOf({<<"compose", "v1">>, <<"env", "v1">>}) }

WaitTimeouts == {Null, "1s", "2m", "0s", "-1s", "", "bogus"}

\* types.Bool.ValueBool: null and unknown read as false.
ValueBool(b) == b = "true"
\* types.String.ValueString: null and unknown read as "".
ValueString(s) == IF s \in {Null, Unknown} THEN "" ELSE s

\* time.Time.UTC().Format(time.RFC3339) of the clock reading t.
RFC3339(t) == "1970-01-01T00:00:00Z+" \o ToString(t) \o "s"

\* ------------------------------------------------------------------ client

\* Errors: the type of the error value, the HTTP status it carries and the
\* error it wraps (type and status), if any.
Err(type, status) == [type |-> type, status |-> status, wrapped |-> "none", wstatus |-> 0]
NoErr == Err("nil", 0)
\* ctx.Err() of a cancelled context.
CtxErr == Err("context canceled", 0)
\* fmt.Errorf("timed out waiting for agent after %s: %w", timeout, err)
TimeoutErr(e) == [type |-> "timed out waiting for agent", status |-> 0,
                  wrapped |-> e.type, wstatus |-> e.status]

\* The response bodies told apart by what json.Unmarshal does with them: a
\* JSON object whose members fit the target, a JSON object with a member of
\* the wrong type, the JSON literal null, a JSON array, text that is not
\* JSON, and no body at all.
Bodies == {"object", "mistyped", "null", "array", "text", "empty"}

\* json.Unmarshal(body, &v) for a struct v returns nil: for an object whose
\* members fit, and for null, which it leaves without effect.
Unmarshals(body) == body \in {"object", "null"}

\* What the HTTP round trip yields: a status code and a body, or no response
\* at all (code 0). The answers the backends of the resources give.
Responses ==
    { [code |-> 200, body |-> "object"], [code |-> 200, body |-> "text"],
      [code |-> 404, body |-> "object"], [code |-> 404, body |-> "text"],
      [code |-> 500, body |-> "object"], [code |-> 0, body |-> "text"] }

\* Client.Do: the error it returns for a round trip. hasResult: the request
\* carries a Result to decode the body into. cancelled: ctx is done.
Do(resp, hasResult, cancelled) ==
    IF cancelled \/ resp.code = 0 THEN Err("request failed", 0)
    ELSE IF resp.code >= StatusErrorFloor
         THEN IF Unmarshals(resp.body) THEN Err("APIError", resp.code)
                                       ELSE Err("API error", resp.code)
    ELSE IF hasResult /\ resp.body # "empty" /\ ~Unmarshals(resp.body)
         THEN Err("failed to parse response", 0)
    ELSE NoErr

\* errors.As(err, &apiErr): the status of the first *APIError in err's chain,
\* 0 when the chain holds none.
AsAPIError(err) ==
    IF err.type = "APIError" THEN err.status
    ELSE IF err.wrapped = "APIError" THEN err.wstatus
    ELSE 0

\* IsNotFound that goes by the status alone, whatever the error's type.
IsNotFoundByStatus(err) == err.status = StatusNotFound \/ err.wstatus = StatusNotFound

\* client.IsNotFound
IsNotFound(err) == AsAPIError(err) = StatusNotFound

\* ------------------------------------------------- records and configuration

\* ProjectDeploymentResourceModel. The null object (no stored record) has
\* every attribute null.
NoState ==
    [id |-> Null, environment_id |-> Null, project_id |-> Null,
     pull |-> Null, force_recreate |-> Null, remove_orphans |-> Null,
     stop_on_delete |-> Null, triggers |-> NullMap, wait_timeout |-> Null,
     status |-> Null, last_deployed_at |-> Null]

\* No configuration: every attribute null.
NoConfig ==
    [environment_id |-> Null, project_id |-> Null, pull |-> Null,
     force_recreate |-> Null, remove_orphans |-> Null, stop_on_delete |-> Null,
     triggers |-> NullMap, wait_timeout |-> Null]

\* What the user writes: an optional attribute left out is null. The
\* configurations applied are the one that sets nothing optional, for the
\* first environment and project and for those that differ from them in the
\* environment or in the project, and for the first environment and project
\* the ones that set one optional attribute and two that set triggers and
\* pull.
Configs ==
    {[NoConfig EXCEPT !.environment_id = e, !.project_id = p] :
        e \in EnvIDs, p \in {"proj1"}}
    \cup
    {[NoConfig EXCEPT !.environment_id = e, !.project_id = p] :
        e \in {"env1"}, p \in ProjectIDs}
    \cup
    UNION { LET base == [NoConfig EXCEPT !.environment_id = e, !.project_id = p]
            IN  {base}
                \cup {[base EXCEPT ![a] = "true"] :
                        a \in {"pull", "force_recreate", "remove_orphans",
                               "stop_on_delete"}}
                \cup {[base EXCEPT !.triggers = t] : t \in TriggerMaps}
                \cup {[base EXCEPT !.wait_timeout = w] : w \in WaitTimeouts}
                \cup {[base EXCEPT !.pull = "true",
                                   !.triggers = MapOf({<<"compose", v>>})] :
                        v \in {"v1", "v2"}}
          : e \in {"env1"}, p \in {"proj1"} }

\* booldefault.StaticBool(false) / stringdefault.StaticString("2m")
WithDefault(v, def) == IF v = Null THEN def ELSE v

\* lastDeployedAtPlanModifier.PlanModifyString: the planned last_deployed_at,
\* given the plan so far and the prior state.
PlanModifyString(plan, st) ==
    IF st.last_deployed_at = Null THEN plan.last_deployed_at
    ELSE LET changed ==
                 \/ plan.triggers # st.triggers
                 \/ \E attr \in {"pull", "force_recreate", "remove_orphans"} :
                        plan[attr] # st[attr]
         IN  IF changed THEN Unknown ELSE st.last_deployed_at

\* stringplanmodifier.UseStateForUnknown on id.
UseStateForUnknown(planValue, st) ==
    IF st = NoState THEN planValue
    ELSE IF planValue # Unknown THEN planValue
    ELSE st.id

\* The planned state the framework derives from the Schema for configuration
\* cfg over the prior state st: configured values with their defaults, prior
\* values for the computed attributes, unknown for the computed attributes
\* once anything differs, then the attributes' plan modifiers.
Schema(cfg, st) ==
    LET proposed ==
            [id |-> st.id, environment_id |-> cfg.environment_id,
             project_id |-> cfg.project_id,
             pull |-> WithDefault(cfg.pull, "false"),
             force_recreate |-> WithDefault(cfg.force_recreate, "false"),
             remove_orphans |-> WithDefault(cfg.remove_orphans, "false"),
             stop_on_delete |-> WithDefault(cfg.stop_on_delete, "false"),
             triggers |-> cfg.triggers,
             wait_timeout |-> WithDefault(cfg.wait_timeout, "2m"),
             status |-> st.status, last_deployed_at |-> st.last_deployed_at]
        marked ==
            IF proposed = st THEN proposed
            ELSE [proposed EXCEPT !.id = Unknown, !.status = Unknown,
                                  !.last_deployed_at = Unknown]
        withID == [marked EXCEPT !.id = UseStateForUnknown(marked.id, st)]
    IN  [withID EXCEPT !.last_deployed_at = PlanModifyString(withID, st)]

\* RequiresReplace that watches environment_id alone.
RequiresReplaceEnvironmentOnly(cfg, st) == cfg.environment_id # st.environment_id

\* stringplanmodifier.RequiresReplace on environment_id and project_id.
RequiresReplace(cfg, st) ==
    \/ cfg.environment_id # st.environment_id
    \/ cfg.project_id # st.project_id

\* What Terraform does with configuration cfg over the stored record st.
Decide(cfg, st) ==
    IF st = NoState THEN "Create"
    ELSE IF RequiresReplace(cfg, st) THEN "Replace"
    ELSE IF Schema(cfg, st) # st THEN "Update"
    ELSE "NoOp"

\* strings.Index(s, "/"), counted from 1; 0 when s holds no "/".
IndexSlash(s) ==
    IF \E i \in 1..Len(s) : SubSeq(s, i, i) = "/"
    THEN CHOOSE i \in 1..Len(s) :
             /\ SubSeq(s, i, i) = "/"
             /\ \A j \in 1..(i - 1) : SubSeq(s, j, j) # "/"
    ELSE 0

\* strings.SplitN(s, "/", 2)
SplitN(s) ==
    IF IndexSlash(s) = 0 THEN <<s>>
    ELSE <<SubSeq(s, 1, IndexSlash(s) - 1), SubSeq(s, IndexSlash(s) + 1, Len(s))>>

\* time.ParseDuration on the strings a configuration may hold, in seconds.
ParseDuration(s) ==
    CASE s = "1s" -> [ok |-> TRUE, d |-> 1]
      [] s = "0s" -> [ok |-> TRUE, d |-> 0]
      [] s = "-1s" -> [ok |-> TRUE, d |-> -1]
      [] s = "2m" -> [ok |-> TRUE, d |-> 120]
      [] OTHER -> [ok |-> FALSE, d |-> 0]

\* parseWaitTimeout that takes the zero duration of a failed parse.
parseWaitTimeoutZeroOnError(plan) ==
    LET timeoutStr == ValueString(plan.wait_timeout)
    IN  IF timeoutStr = "" THEN DefaultWaitTimeout
        ELSE ParseDuration(timeoutStr).d

\* ProjectDeploymentResource.parseWaitTimeout, in seconds.
parseWaitTimeout(plan) ==
    LET timeoutStr == ValueString(plan.wait_timeout)
    IN  IF timeoutStr = "" THEN DefaultWaitTimeout
        ELSE IF ~ParseDuration(timeoutStr).ok THEN DefaultWaitTimeout
        ELSE ParseDuration(timeoutStr).d

\* NextBackoff without the cap.
NextBackoffUncapped(backoff) == backoff * 2

\* The backoff after a sleep of the current backoff.
NextBackoff(backoff) ==
    IF backoff < BackoffCap THEN Min(backoff * 2, BackoffCap) ELSE backoff

\* One backend call as the provider issues it.
Call(kind, plan) ==
    [kind |-> kind, env |-> ValueString(plan.environment_id),
     project |-> ValueString(plan.project_id),
     pull |-> FALSE, force_recreate |-> FALSE, remove_orphans |-> FALSE]
\* DeployCall leaving force_recreate out of the request.
DeployCallDropsForceRecreate(kind, plan) ==
    [Call(kind, plan) EXCEPT !.pull = ValueBool(plan.pull),
                             !.remove_orphans = ValueBool(plan.remove_orphans)]

\* client.ProjectDeployRequest built from the plan.
DeployCall(kind, plan) ==
    [Call(kind, plan) EXCEPT !.pull = ValueBool(plan.pull),
                             !.force_recreate = ValueBool(plan.force_recreate),
                             !.remove_orphans = ValueBool(plan.remove_orphans)]

Diag(summary, err) == [summary |-> summary, detail |-> err]
NoDiag == Diag("", NoErr)

\* ------------------------------------------------- the environment resource

\* EnvironmentResourceModel. The null object (no stored record) has every
\* attribute null.
NoEnvironment ==
    [id |-> Null, name |-> Null, api_url |-> Null, description |-> Null,
     use_api_key |-> Null, access_token |-> Null, regenerate_access_token |-> Null]

\* No environment configuration: every attribute null.
NoEnvironmentConfig ==
    [name |-> Null, api_url |-> Null, description |-> Null, use_api_key |-> Null,
     regenerate_access_token |-> Null]

\* client.Environment as the backend holds it; exists is false when it holds
\* none.
NoBackendEnvironment ==
    [exists |-> FALSE, id |-> "", name |-> "", api_url |-> "", description |-> "",
     use_api_key |-> FALSE, access_token |-> "", apiKey |-> ""]

\* ------------------------------------------ the project status data source

\* A list attribute: null, or a list of values.
NullList == [isNull |-> TRUE, elems |-> <<>>]
ListOf(seq) == [isNull |-> FALSE, elems |-> seq]

\* client.Project as the backend holds it: no project.
NoProject == [name |-> "", status |-> "", path |-> "", services |-> <<>>]

\* ProjectStatusDataSourceModel with nothing read.
NoStatusData ==
    [environment_id |-> Null, project_id |-> Null, name |-> Null, status |-> Null,
     path |-> Null, containers |-> NullList]

\* -------------------------------------------------------------------- state

VARIABLES
    state,        \* the stored deployment record (NoState: none)
    backend,      \* the backend's status of each project
    now,          \* the clock, in seconds
    pc,           \* where the running operation stands: idle, probe, select, deploy
    op,           \* the operation running or last run
    desired,      \* the configuration the operation applies (NoConfig: none)
    data,         \* the plan the operation was given
    prior,        \* the stored record when the operation began
    backend0,     \* the backend's statuses when the operation began
    calls,        \* the backend calls the operation has issued, in order
    diag,         \* the operation's error diagnostic (NoDiag: none)
    ctxDone,      \* the operation's context is cancelled
    cancelAt,     \* where the operation stood when it was cancelled
    cancelTime,   \* the clock when it was cancelled
    startTime,    \* the clock when waitForAgent began
    timeout,      \* waitForAgent's timeout
    deadline,     \* waitForAgent's deadline
    backoff,      \* waitForAgent's current backoff
    sleeps,       \* the sleeps waitForAgent has completed, in order
    nprobes,      \* the probes waitForAgent has issued
    firstOk,      \* the number of the first probe that succeeded (0: none yet)
    lastErr,      \* the error the operation's last backend call returned
    deployErr     \* the error the operation's up or redeploy call returned

\* The arcane_environment resource.
VARIABLES
    envState,     \* the stored environment record (NoEnvironment: none)
    envBackend,   \* the environment the backend holds (NoBackendEnvironment: none)
    envKeys,      \* the number of API keys the backend has generated
    envOp,        \* the environment operation last run
    envDesired,   \* the configuration it applied
    envData,      \* the plan it was given
    envPrior,     \* the stored environment record when it began
    envCalls,     \* the backend calls it issued, in order
    envDiag       \* its error diagnostic (NoDiag: none)

\* One call of Client.Do.
VARIABLES
    httpResp,     \* the response of the HTTP round trip
    doHasResult,  \* the request carries a Result
    doCancelled,  \* the request's context is done
    doErr,        \* the error Do returned, or an error that wraps it
    doOp          \* the client step last taken

\* The arcane_project_status data source.
VARIABLES
    dsProject,    \* the project the backend holds
    dsContainers, \* the containers the backend reports for the project
    dsData,       \* the data the last Read stored (NoStatusData: none)
    dsCalls,      \* the backend calls the last Read issued, in order
    dsErrs,       \* the errors those calls returned, in order
    dsDiag,       \* the last Read's error diagnostic (NoDiag: none)
    dsOp          \* the data source step last taken

envVars == <<envState, envBackend, envKeys, envOp, envDesired, envData, envPrior,
             envCalls, envDiag>>
clientVars == <<httpResp, doHasResult, doCancelled, doErr, doOp>>
dsVars == <<dsProject, dsContainers, dsData, dsCalls, dsErrs, dsDiag, dsOp>>

opVars == <<op, desired, data, prior, backend0>>
waitVars == <<startTime, timeout, deadline, backoff, sleeps, nprobes, firstOk>>
ctxVars == <<ctxDone, cancelAt, cancelTime>>
deployVars == <<state, backend, now, pc, calls, diag, lastErr, deployErr,
                opVars, waitVars, ctxVars>>
vars == <<deployVars, envVars, clientVars, dsVars>>

Init ==
    /\ state = NoState
    /\ backend \in [ProjectIDs -> Statuses]
    /\ now = 0
    /\ pc = "idle"
    /\ op = "none"
    /\ desired = NoConfig
    /\ data = NoState
    /\ prior = NoState
    /\ backend0 = backend
    /\ calls = <<>>
    /\ diag = NoDiag
    /\ ctxDone = FALSE
    /\ cancelAt = "none"
    /\ cancelTime = 0
    /\ startTime = 0
    /\ timeout = 0
    /\ deadline = 0
    /\ backoff = InitialBackoff
    /\ sleeps = <<>>
    /\ nprobes = 0
    /\ firstOk = 0
    /\ lastErr = NoErr
    /\ deployErr = NoErr
    /\ envState = NoEnvironment
    /\ envBackend = NoBackendEnvironment
    /\ envKeys = 0
    /\ envOp = "none"
    /\ envDesired = NoEnvironmentConfig
    /\ envData = NoEnvironment
    /\ envPrior = NoEnvironment
    /\ envCalls = <<>>
    /\ envDiag = NoDiag
    /\ httpResp = [code |-> 0, body |-> "empty"]
    /\ doHasResult = FALSE
    /\ doCancelled = FALSE
    /\ doErr = NoErr
    /\ doOp = "none"
    /\ dsProject = NoProject
    /\ dsContainers = <<>>
    /\ dsData = NoStatusData
    /\ dsCalls = <<>>
    /\ dsErrs = <<>>
    /\ dsDiag = NoDiag
    /\ dsOp = "none"

\* An operation that does not call waitForAgent has none of its variables.
NoWait ==
    /\ startTime' = 0
    /\ timeout' = 0
    /\ deadline' = 0
    /\ backoff' = InitialBackoff
    /\ sleeps' = <<>>
    /\ nprobes' = 0
    /\ firstOk' = 0

\* The operation Terraform runs next whatever else is asked of it: the Create
\* of a replacement after its destroy, the Read of an import after its
\* ImportState.
Forced ==
    IF pc = "idle" /\ op = "Replace" /\ diag = NoDiag THEN "Create"
    ELSE IF op = "ImportState" /\ diag = NoDiag THEN "ImportRead"
    ELSE "any"

\* An operation begins: Terraform hands it a fresh context.
Begin(name, cfg, plan) ==
    /\ pc = "idle"
    /\ \/ Forced = "any" /\ now <= MaxStart
       \/ Forced = name /\ (name = "Create" => cfg = desired)
    /\ op' = name
    /\ desired' = cfg
    /\ data' = plan
    /\ prior' = state
    /\ backend0' = backend
    /\ ctxDone' = FALSE
    /\ cancelAt' = "none"
    /\ cancelTime' = 0

\* After that never reports the deadline passed.
NeverAfter(t, d) == FALSE

\* After that reports the deadline passed at the deadline itself.
AfterOrAt(t, d) == t >= d

\* time.Now().After(deadline)
After(t, d) == t > d

\* CompositeID that leaves the environment out.
CompositeIDOfProject(plan) == ValueString(plan.project_id)

\* The composite id Create stores.
CompositeID(plan) ==
    ValueString(plan.environment_id) \o "/" \o ValueString(plan.project_id)

\* The mock backend's effect of a successful up, redeploy or down call.
BackendAfter(kind, b, project) ==
    [b EXCEPT ![project] = IF kind = "down" THEN "stopped" ELSE "running"]

\* What the backend may answer to a call for a project: anything for a project
\* it holds, never a success for one it does not hold.
Answers(b, project) ==
    IF project \in DOMAIN b THEN Responses ELSE {r \in Responses : r.code # 200}

\* Create up to its call of waitForAgent, and waitForAgent up to its loop.
Create(cfg) ==
    /\ Decide(cfg, state) = "Create"
    /\ Begin("Create", cfg, Schema(cfg, NoState))
    /\ calls' = <<>>
    /\ diag' = NoDiag
    /\ startTime' = now
    /\ timeout' = parseWaitTimeout(data')
    /\ deadline' = now + timeout'
    /\ backoff' = InitialBackoff
    /\ sleeps' = <<>>
    /\ nprobes' = 0
    /\ firstOk' = 0
    /\ lastErr' = NoErr
    /\ deployErr' = NoErr
    /\ pc' = "probe"
    /\ UNCHANGED <<state, backend, now>>
    /\ UNCHANGED <<envVars, clientVars, dsVars>>

\* AfterProbe that goes on to sleep after a probe that succeeded.
AfterProbeSleepsOnSuccess(err, t, dl) ==
    IF err # NoErr /\ t > dl THEN "idle" ELSE "select"

\* AfterProbe that consults the deadline before the probe's result.
AfterProbeChecksDeadlineFirst(err, t, dl) ==
    IF After(t, dl) THEN "idle"
    ELSE IF err = NoErr THEN "deploy"
    ELSE "select"

\* AfterProbe that takes a not-found answer for a reachable agent.
AfterProbeDeploysOnNotFound(err, t, dl) ==
    IF err = NoErr \/ IsNotFound(err) THEN "deploy"
    ELSE IF After(t, dl) THEN "idle"
    ELSE "select"

\* Where waitForAgent goes after a probe that returned err at time t.
AfterProbe(err, t, dl) ==
    IF err = NoErr THEN "deploy"
    ELSE IF After(t, dl) THEN "idle"
    ELSE "select"

\* One turn of waitForAgent's loop up to its select: the probe, its result,
\* the deadline.
waitForAgentProbe ==
    /\ pc = "probe"
    /\ \E err \in {Do(r, TRUE, ctxDone) : r \in Answers(backend, ValueString(data.project_id))},
          d \in 1..MaxProbeDur :
         LET next == AfterProbe(err, now + d, deadline)
         IN  /\ now' = now + d
             /\ nprobes' = nprobes + 1
             /\ calls' = Append(calls, Call("get", data))
             /\ lastErr' = err
             /\ firstOk' = IF err = NoErr /\ firstOk = 0 THEN nprobes + 1 ELSE firstOk
             /\ pc' = next
             /\ diag' = IF next = "idle"
                        THEN Diag("Agent not reachable", TimeoutErr(err))
                        ELSE diag
    /\ UNCHANGED <<state, backend, opVars, ctxVars, startTime, timeout, deadline,
                   backoff, sleeps, deployErr>>
    /\ UNCHANGED <<envVars, clientVars, dsVars>>

\* SelectCase that waits for the timer alone.
SelectTimerOnly(done) == "time.After"

\* Which case of waitForAgent's select is taken: ctx.Done() when the context
\* is cancelled, the timer otherwise.
SelectCase(done) == IF done THEN "ctx.Done" ELSE "time.After"

\* waitForAgent's select and the backoff update after it.
waitForAgentSelect ==
    /\ pc = "select"
    /\ IF SelectCase(ctxDone) = "ctx.Done"
       THEN /\ pc' = "idle"
            /\ diag' = Diag("Agent not reachable", CtxErr)
            /\ UNCHANGED <<now, backoff, sleeps>>
       ELSE /\ pc' = "probe"
            /\ now' = now + backoff
            /\ sleeps' = Append(sleeps, backoff)
            /\ backoff' = NextBackoff(backoff)
            /\ UNCHANGED diag
    /\ UNCHANGED <<state, backend, calls, lastErr, opVars, ctxVars, startTime,
                   timeout, deadline, nprobes, firstOk, deployErr>>
    /\ UNCHANGED <<envVars, clientVars, dsVars>>

\* Deployed without the new last_deployed_at.
DeployedKeepsTimestamp(plan, id, status, t) ==
    [plan EXCEPT !.id = id, !.status = status]

\* The record Create and Update store: the plan with the status the GET
\* returned and the time of the store.
Deployed(plan, id, status, t) ==
    [plan EXCEPT !.id = id, !.status = status, !.last_deployed_at = RFC3339(t)]

\* DeployErrStops that lets a not-found answer pass.
DeployErrStopsUnlessNotFound(err) == err # NoErr /\ ~IsNotFound(err)

\* Whether the operation returns on the error of its up or redeploy call.
DeployErrStops(err) == err # NoErr

\* ResponseState that holds the plan.
ResponseStateIsPlan(st, plan) == plan

\* The record the response holds when the handler returns without setting
\* it: the record before the operation (none for Create).
ResponseState(st, plan) == st

\* StatusCalls that fetches the status twice.
StatusCallsTwice(plan) == <<Call("get", plan), Call("get", plan)>>

\* The calls between the up or redeploy call that succeeded and the store.
StatusCalls(plan) == <<Call("get", plan)>>

\* StatusToStore that keeps the status the provider knew.
StatusToStoreTracked(got, tracked) == tracked

\* The status an operation stores, given the status the project GET returned
\* and the status the record held.
StatusToStore(got, tracked) == got

\* client.GetProject's Status for a project.
GetProject(b, project) == b[project]

\* The part Create and Update share: the deploy call of the given kind, then
\* the status GET, then the state. log: the calls issued so far; summary:
\* what is reported when the deploy call fails.
DeployThenStore(kind, plan, id, summary, cancelled, log) ==
    \E e1 \in {Do(r, FALSE, cancelled) :
                   r \in Answers(backend, ValueString(plan.project_id))} :
        /\ deployErr' = e1
        /\ IF DeployErrStops(e1)
           THEN /\ calls' = Append(log, DeployCall(kind, plan))
                /\ lastErr' = e1
                /\ diag' = Diag(summary, e1)
                /\ now' = now + 1
                /\ state' = ResponseState(state, plan)
                /\ UNCHANGED backend
           ELSE \E e2 \in {Do(r, TRUE, cancelled) :
                             r \in Answers(backend, ValueString(plan.project_id))} :
                  LET project == ValueString(plan.project_id)
                      after == IF e1 = NoErr
                               THEN BackendAfter(kind, backend, project)
                               ELSE backend
                  IN  /\ calls' = Append(log, DeployCall(kind, plan))
                                    \o StatusCalls(plan)
                      /\ lastErr' = e2
                      /\ backend' = after
                      /\ now' = now + 2
                      /\ IF e2 # NoErr
                         THEN /\ diag' = Diag("Failed to get project status", e2)
                              /\ state' = ResponseState(state, plan)
                         ELSE /\ diag' = NoDiag
                              /\ state' =
                                   Deployed(plan, id,
                                            StatusToStore(GetProject(after, project),
                                                          state.status),
                                            now + 2)

\* Create after waitForAgent returned nil: the up call, the status GET, the
\* state.
CreateDeploy ==
    /\ pc = "deploy"
    /\ DeployThenStore("up", data, CompositeID(data), "Failed to deploy project",
                       ctxDone, calls)
    /\ pc' = "idle"
    /\ UNCHANGED <<opVars, ctxVars, waitVars>>
    /\ UNCHANGED <<envVars, clientVars, dsVars>>

\* Terraform applies a configuration whose plan differs from the stored
\* record of the same environment and project: Update.
Update(cfg) ==
    /\ Decide(cfg, state) = "Update"
    /\ Begin("Update", cfg, Schema(cfg, state))
    /\ DeployThenStore("redeploy", Schema(cfg, state), Schema(cfg, state).id,
                       "Failed to redeploy project", FALSE, <<>>)
    /\ NoWait
    /\ UNCHANGED pc
    /\ UNCHANGED <<envVars, clientVars, dsVars>>

\* Terraform plans a configuration whose plan equals the stored record: no
\* operation of the resource is invoked.
NoChanges(cfg) ==
    /\ Decide(cfg, state) = "NoOp"
    /\ Begin("NoOp", cfg, Schema(cfg, state))
    /\ calls' = <<>>
    /\ diag' = NoDiag
    /\ lastErr' = NoErr
    /\ deployErr' = NoErr
    /\ NoWait
    /\ UNCHANGED <<state, backend, now, pc>>
    /\ UNCHANGED <<envVars, clientVars, dsVars>>

\* StopsOnDelete that stops whatever the record says.
StopsAlways(st) == TRUE

\* Whether Delete stops the project.
StopsOnDelete(st) == ValueBool(st.stop_on_delete)

\* DeleteFails that reports a not-found answer too.
DeleteFailsOnAnyError(err) == err # NoErr

\* Whether Delete reports the error of its down call.
DeleteFails(err) == err # NoErr /\ ~IsNotFound(err)

\* Delete, and the framework's removal of the record when Delete reports no
\* error.
DestroyRecord ==
    /\ IF StopsOnDelete(state)
       THEN \E err \in {Do(r, FALSE, FALSE) :
                            r \in Answers(backend, ValueString(state.project_id))} :
              LET project == ValueString(state.project_id)
              IN  /\ calls' = <<Call("down", state)>>
                  /\ lastErr' = err
                  /\ now' = now + 1
                  /\ backend' = IF err = NoErr
                                THEN BackendAfter("down", backend, project)
                                ELSE backend
                  /\ IF DeleteFails(err)
                     THEN /\ diag' = Diag("Failed to stop project", err)
                          /\ UNCHANGED state
                     ELSE /\ diag' = NoDiag
                          /\ state' = NoState
       ELSE /\ calls' = <<>>
            /\ lastErr' = NoErr
            /\ diag' = NoDiag
            /\ state' = NoState
            /\ UNCHANGED <<backend, now>>
    /\ deployErr' = NoErr
    /\ NoWait
    /\ UNCHANGED pc
    /\ UNCHANGED <<envVars, clientVars, dsVars>>

\* Terraform destroys the stored record.
Delete ==
    /\ state # NoState
    /\ Begin("Delete", NoConfig, state)
    /\ DestroyRecord

\* Terraform applies a configuration whose environment_id or project_id
\* differs from the stored record's: the destroy half of the replacement. The
\* Create of the new record follows when the destroy reported no error.
Replace(cfg) ==
    /\ Decide(cfg, state) = "Replace"
    /\ Begin("Replace", cfg, Schema(cfg, NoState))
    /\ DestroyRecord

\* ReadRemoves that never removes the record.
ReadRemovesNever(err) == FALSE

\* Whether Read removes the record on the error of its GET.
ReadRemoves(err) == IsNotFound(err)

\* Refreshed that forgets last_deployed_at.
RefreshedWithoutTimestamp(st, status) ==
    [st EXCEPT !.status = status, !.last_deployed_at = Null]

\* The record a successful Read stores.
Refreshed(st, status) == [st EXCEPT !.status = status]

\* Terraform refreshes the stored record, or reads the record ImportState
\* made: Read. An import whose Read finds nothing or fails stores nothing.
Read ==
    /\ state # NoState
    /\ Begin(IF Forced = "ImportRead" THEN "ImportRead" ELSE "Read", NoConfig, state)
    /\ \E err \in {Do(r, TRUE, FALSE) :
                        r \in Answers(backend, ValueString(state.project_id))} :
         LET project == ValueString(state.project_id)
         IN  /\ calls' = <<Call("get", state)>>
             /\ lastErr' = err
             /\ now' = now + 1
             /\ IF err = NoErr
                THEN /\ state' = Refreshed(state,
                                           StatusToStore(GetProject(backend, project),
                                                         state.status))
                     /\ diag' = NoDiag
                ELSE IF ReadRemoves(err)
                THEN /\ state' = NoState
                     /\ diag' = NoDiag
                ELSE /\ diag' = Diag("Failed to get project status", err)
                     /\ state' = IF Forced = "ImportRead" THEN NoState ELSE state
    /\ deployErr' = NoErr
    /\ NoWait
    /\ UNCHANGED <<backend, pc>>
    /\ UNCHANGED <<envVars, clientVars, dsVars>>

\* The identifiers given to terraform import: the composite ids of the
\* environments and projects, and some that are not composite ids.
ImportIDs ==
    {e \o "/" \o p : e \in EnvIDs, p \in ProjectIDs} \cup {"proj1", "/proj1", "env1/"}

\* ImportedRecord that also sets the schema's defaults.
ImportedRecordWithDefaults(id, parts) ==
    [NoState EXCEPT !.id = id, !.environment_id = parts[1], !.project_id = parts[2],
                    !.pull = "false", !.force_recreate = "false",
                    !.remove_orphans = "false", !.stop_on_delete = "false",
                    !.wait_timeout = "2m"]

\* The record ImportState makes of an id and its two parts.
ImportedRecord(id, parts) ==
    [NoState EXCEPT !.id = id, !.environment_id = parts[1], !.project_id = parts[2]]

\* terraform import with no stored record: ImportState.
ImportState(id) ==
    /\ state = NoState
    /\ Begin("ImportState", NoConfig, [NoState EXCEPT !.id = id])
    /\ LET parts == SplitN(id)
       IN  IF Len(parts) # 2 \/ parts[1] = "" \/ parts[2] = ""
           THEN /\ diag' = Diag("Invalid import ID", Err("invalid import ID", 0))
                /\ UNCHANGED state
           ELSE /\ diag' = NoDiag
                /\ state' = ImportedRecord(id, parts)
    /\ calls' = <<>>
    /\ lastErr' = NoErr
    /\ deployErr' = NoErr
    /\ NoWait
    /\ UNCHANGED <<backend, now, pc>>
    /\ UNCHANGED <<envVars, clientVars, dsVars>>

\* The project is started or stopped outside Terraform.
ExternalChange ==
    /\ pc = "idle"
    /\ Forced = "any"
    /\ \E project \in ProjectIDs, s \in Statuses :
         /\ s # backend[project]
         /\ backend' = [backend EXCEPT ![project] = s]
    /\ op' = "ExternalChange"
    /\ desired' = NoConfig
    /\ data' = NoState
    /\ prior' = state
    /\ backend0' = backend
    /\ calls' = <<>>
    /\ diag' = NoDiag
    /\ lastErr' = NoErr
    /\ ctxDone' = FALSE
    /\ cancelAt' = "none"
    /\ cancelTime' = 0
    /\ deployErr' = NoErr
    /\ NoWait
    /\ UNCHANGED <<state, now, pc>>
    /\ UNCHANGED <<envVars, clientVars, dsVars>>

\* How far into a sleep of the current backoff a cancellation may arrive.
CancelOffsets(b) == {0, b - 1}

\* The operation's context is cancelled while Create is under way; during
\* the sleep of waitForAgent's select it arrives before the timer fires.
Cancel ==
    /\ pc \in {"probe", "select", "deploy"}
    /\ ~ctxDone
    /\ ctxDone' = TRUE
    /\ cancelAt' = pc
    /\ \E s \in (IF pc = "select" THEN CancelOffsets(backoff) ELSE {0}) :
         /\ now' = now + s
         /\ cancelTime' = now + s
    /\ UNCHANGED <<state, backend, pc, calls, diag, lastErr, deployErr, opVars,
                   waitVars>>
    /\ UNCHANGED <<envVars, clientVars, dsVars>>

Next ==
    \/ \E cfg \in Configs : Create(cfg)
    \/ waitForAgentProbe
    \/ waitForAgentSelect
    \/ CreateDeploy
    \/ \E cfg \in Configs : Update(cfg)
    \/ \E cfg \in Configs : NoChanges(cfg)
    \/ Delete
    \/ \E cfg \in Configs : Replace(cfg)
    \/ Read
    \/ \E id \in ImportIDs : ImportState(id)
    \/ ExternalChange
    \/ Cancel

Spec == Init /\ [][Next]_vars

\* ---------------------------------------- the environment resource: actions

BoolString(b) == IF b THEN "true" ELSE "false"

\* What the user writes for an environment: the one that sets nothing
\* optional, the ones that change one attribute, and one that renames while
\* regenerate_access_token is true.
EnvironmentConfigs ==
    LET base == [NoEnvironmentConfig EXCEPT !.name = "prod", !.api_url = "http://a"]
    IN  {base, [base EXCEPT !.name = "stage"], [base EXCEPT !.api_url = "http://b"],
         [base EXCEPT !.description = "d1"], [base EXCEPT !.description = ""],
         [base EXCEPT !.use_api_key = "true"],
         [base EXCEPT !.regenerate_access_token = "true"],
         [base EXCEPT !.regenerate_access_token = "false"],
         [base EXCEPT !.regenerate_access_token = "true", !.name = "stage"]}

\* accessTokenPlanModifier.PlanModifyString: the planned access_token, given
\* the plan so far and the prior state.
AccessTokenPlanModify(plan, st) ==
    IF ValueBool(plan.regenerate_access_token) /\ ~ValueBool(st.regenerate_access_token)
    THEN Unknown
    ELSE IF plan.access_token \in {Unknown, Null} /\ st.access_token # Null
    THEN st.access_token
    ELSE plan.access_token

\* The planned state the framework derives from EnvironmentResource.Schema
\* for configuration cfg over the prior state st.
EnvironmentSchema(cfg, st) ==
    LET proposed ==
            [id |-> st.id, name |-> cfg.name, api_url |-> cfg.api_url,
             description |-> cfg.description,
             use_api_key |-> WithDefault(cfg.use_api_key, "false"),
             access_token |-> st.access_token,
             regenerate_access_token |->
                 WithDefault(cfg.regenerate_access_token, "false")]
        marked ==
            IF proposed = st THEN proposed
            ELSE [proposed EXCEPT !.id = Unknown, !.access_token = Unknown]
        withID ==
            [marked EXCEPT !.id = IF st # NoEnvironment /\ marked.id = Unknown
                                  THEN st.id ELSE marked.id]
    IN  [withID EXCEPT !.access_token = AccessTokenPlanModify(withID, st)]

\* What Terraform does with configuration cfg over the stored record st.
EnvironmentDecide(cfg, st) ==
    IF st = NoEnvironment THEN "Create"
    ELSE IF EnvironmentSchema(cfg, st) # st THEN "Update"
    ELSE "NoOp"

\* One backend call for an environment; a field the request leaves out is
\* "<unset>".
EnvironmentCall(kind, id) ==
    [kind |-> kind, id |-> id, name |-> "<unset>", description |-> "<unset>",
     use_api_key |-> "<unset>"]

\* What the backend may answer to a call for environment id: anything when it
\* holds it, never a success when it does not.
EnvironmentAnswers(id) ==
    IF envBackend.exists /\ envBackend.id = id THEN Responses
    ELSE {r \in Responses : r.code # 200}

\* The API keys a regenerate call that succeeded may return: a new key, or
\* none.
RegeneratedKeys == {"arc_" \o ToString(envKeys + 1), ""}

\* The outcomes of a regenerate call for environment id, when one is made.
RegenerateOutcomes(made, id, answers) ==
    IF ~made THEN {[err |-> NoErr, key |-> ""]}
    ELSE {[err |-> Do(r, TRUE, FALSE), key |-> ""] : r \in answers}
         \cup {[err |-> NoErr, key |-> k] :
                 k \in {k2 \in RegeneratedKeys : NoErr \in {Do(r, TRUE, FALSE) : r \in answers}}}

\* The backend's environment after a regenerate call that returned key.
AfterRegenerate(b, key) == IF key = "" THEN b ELSE [b EXCEPT !.apiKey = key]

\* The operation Terraform runs next whatever else is asked of it: the Read
\* of an import after its ImportState.
EnvironmentForced ==
    IF envOp = "ImportState" /\ envDiag = NoDiag THEN "ImportRead" ELSE "any"

\* An environment operation begins.
EnvironmentBegin(name, cfg, plan) ==
    /\ EnvironmentForced \in {"any", name}
    /\ envOp' = name
    /\ envDesired' = cfg
    /\ envData' = plan
    /\ envPrior' = envState

\* EnvironmentCreated that prefers the create response's access token to the
\* regenerated key.
EnvironmentCreatedPrefersCreateToken(plan, env, key) ==
    [plan EXCEPT !.id = env.id,
                 !.name = env.name,
                 !.description = IF env.description # "" THEN env.description ELSE @,
                 !.use_api_key = BoolString(env.use_api_key),
                 !.access_token = IF env.access_token # "" THEN env.access_token
                                  ELSE IF key # "" THEN key
                                  ELSE Null]

\* The record EnvironmentResource.Create stores, given the plan, the
\* environment the create call returned and the key the regenerate call
\* returned.
EnvironmentCreated(plan, env, key) ==
    [plan EXCEPT !.id = env.id,
                 !.name = env.name,
                 !.description = IF env.description # "" THEN env.description ELSE @,
                 !.use_api_key = BoolString(env.use_api_key),
                 !.access_token = IF key # "" THEN key
                                  ELSE IF env.access_token # "" THEN env.access_token
                                  ELSE Null]

\* EnvironmentResource.Create
EnvironmentCreate(cfg) ==
    /\ EnvironmentDecide(cfg, envState) = "Create"
    /\ envKeys < MaxKeys
    /\ EnvironmentBegin("Create", cfg, EnvironmentSchema(cfg, NoEnvironment))
    /\ LET plan == EnvironmentSchema(cfg, NoEnvironment)
           name == ValueString(plan.name)
           env == [exists |-> TRUE, id |-> "env-" \o name, name |-> name,
                   api_url |-> ValueString(plan.api_url),
                   description |-> ValueString(plan.description),
                   use_api_key |-> ValueBool(plan.use_api_key),
                   access_token |-> IF ValueBool(plan.use_api_key)
                                    THEN "mock-token-" \o name ELSE "",
                   apiKey |-> ""]
           create == [EnvironmentCall("create", "") EXCEPT
                        !.name = name, !.description = env.description,
                        !.use_api_key = BoolString(env.use_api_key)]
       IN  \E e1 \in {Do(r, TRUE, FALSE) :
                        r \in IF envBackend.exists
                              THEN {r2 \in Responses : r2.code # 200}
                              ELSE Responses} :
             IF e1 # NoErr
             THEN /\ envCalls' = <<create>>
                  /\ envDiag' = Diag("Failed to create environment", e1)
                  /\ UNCHANGED <<envState, envBackend, envKeys>>
             ELSE \E out \in RegenerateOutcomes(TRUE, env.id, Responses) :
                    /\ envCalls' = <<create, EnvironmentCall("regenerate", env.id)>>
                    /\ envBackend' = AfterRegenerate(env, out.key)
                    /\ envKeys' = IF out.key = "" THEN envKeys ELSE envKeys + 1
                    /\ IF out.err # NoErr
                       THEN /\ envDiag' = Diag("Failed to generate API key for environment",
                                               out.err)
                            /\ UNCHANGED envState
                       ELSE /\ envDiag' = NoDiag
                            /\ envState' = EnvironmentCreated(plan, env, out.key)
    /\ UNCHANGED <<deployVars, clientVars, dsVars>>

\* NeedsRegenerate that regenerates whenever the plan's flag is true.
NeedsRegenerateWheneverTrue(plan, st) == ValueBool(plan.regenerate_access_token)

\* Whether Update regenerates the API key.
NeedsRegenerate(plan, st) ==
    ValueBool(plan.regenerate_access_token) /\ ~ValueBool(st.regenerate_access_token)

\* client.EnvironmentUpdateRequest as Update builds it; none of its fields is
\* set when nothing it watches changed.
UpdateRequest(plan, st) ==
    [EnvironmentCall("update", ValueString(plan.id)) EXCEPT
       !.name = IF plan.name # st.name THEN ValueString(plan.name) ELSE @,
       !.description = IF plan.description # st.description
                       THEN ValueString(plan.description) ELSE @,
       !.use_api_key = IF plan.use_api_key # st.use_api_key
                       THEN BoolString(ValueBool(plan.use_api_key)) ELSE @]

needsUpdate(plan, st) ==
    \/ plan.name # st.name
    \/ plan.description # st.description
    \/ plan.use_api_key # st.use_api_key

\* The backend's environment after an update request: the JSON body leaves
\* out a name or description that is empty (omitempty) and a use_api_key
\* that is unset.
AfterUpdate(b, req) ==
    [b EXCEPT !.name = IF req.name \in {"<unset>", ""} THEN @ ELSE req.name,
              !.description = IF req.description \in {"<unset>", ""} THEN @
                              ELSE req.description,
              !.use_api_key = IF req.use_api_key = "<unset>" THEN @
                              ELSE req.use_api_key = "true"]

\* The plan with what the update call returned.
FromUpdateResponse(plan, env) ==
    [plan EXCEPT !.name = env.name,
                 !.description = IF env.description # "" THEN env.description ELSE Null,
                 !.use_api_key = BoolString(env.use_api_key)]

\* PreserveAccessToken that preserves nothing.
PreserveAccessTokenNever(d, st) == d

\* Update's last step: a planned access_token that is null or unknown is
\* replaced by the stored one.
PreserveAccessToken(d, st) ==
    IF d.access_token \in {Null, Unknown}
    THEN [d EXCEPT !.access_token = st.access_token]
    ELSE d

\* EnvironmentResource.Update
EnvironmentUpdate(cfg) ==
    /\ EnvironmentDecide(cfg, envState) = "Update"
    /\ NeedsRegenerate(EnvironmentSchema(cfg, envState), envState) => envKeys < MaxKeys
    /\ EnvironmentBegin("Update", cfg, EnvironmentSchema(cfg, envState))
    /\ LET plan == EnvironmentSchema(cfg, envState)
           st == envState
           id == ValueString(plan.id)
           regen == NeedsRegenerate(plan, st)
           upd == needsUpdate(plan, st)
           regenCalls == IF regen THEN <<EnvironmentCall("regenerate", id)>> ELSE <<>>
       IN  \E out \in RegenerateOutcomes(regen, id, EnvironmentAnswers(id)) :
             IF out.err # NoErr
             THEN /\ envCalls' = regenCalls
                  /\ envDiag' = Diag("Failed to regenerate API key", out.err)
                  /\ UNCHANGED <<envState, envBackend, envKeys>>
             ELSE \E e2 \in IF upd
                            THEN {Do(r, TRUE, FALSE) : r \in EnvironmentAnswers(id)}
                            ELSE {NoErr} :
                    LET data1 ==
                            IF regen
                            THEN IF out.key # ""
                                 THEN [plan EXCEPT !.access_token = out.key]
                                 ELSE plan
                            ELSE IF ~ValueBool(plan.regenerate_access_token)
                                    /\ ValueBool(st.regenerate_access_token)
                            THEN [plan EXCEPT !.access_token = st.access_token]
                            ELSE plan
                        b1 == AfterRegenerate(envBackend, out.key)
                        b2 == IF upd THEN AfterUpdate(b1, UpdateRequest(plan, st))
                              ELSE b1
                        data2 == IF upd THEN FromUpdateResponse(data1, b2) ELSE data1
                        data3 == PreserveAccessToken(data2, st)
                    IN  /\ envKeys' = IF out.key = "" THEN envKeys ELSE envKeys + 1
                        /\ envCalls' = regenCalls
                                         \o (IF upd THEN <<UpdateRequest(plan, st)>>
                                             ELSE <<>>)
                        /\ IF e2 # NoErr
                           THEN /\ envDiag' = Diag("Failed to update environment", e2)
                                /\ envBackend' = b1
                                /\ UNCHANGED envState
                           ELSE /\ envDiag' = NoDiag
                                /\ envBackend' = b2
                                /\ envState' = data3
    /\ UNCHANGED <<deployVars, clientVars, dsVars>>

\* Terraform plans an environment configuration whose plan equals the stored
\* record: no operation of the resource is invoked.
EnvironmentNoChanges(cfg) ==
    /\ EnvironmentDecide(cfg, envState) = "NoOp"
    /\ EnvironmentBegin("NoOp", cfg, EnvironmentSchema(cfg, envState))
    /\ envCalls' = <<>>
    /\ envDiag' = NoDiag
    /\ UNCHANGED <<envState, envBackend, envKeys, deployVars, clientVars, dsVars>>

\* The record a successful Read stores.
EnvironmentRefreshed(st, env) ==
    [st EXCEPT !.name = env.name,
               !.api_url = IF env.api_url # "" THEN env.api_url ELSE @,
               !.description = IF env.description # "" THEN env.description ELSE Null,
               !.use_api_key = BoolString(env.use_api_key)]

\* EnvironmentResource.Read, on a refresh or after ImportState. An import
\* whose Read finds nothing or fails stores nothing.
EnvironmentRead ==
    /\ envState # NoEnvironment
    /\ EnvironmentBegin(IF EnvironmentForced = "ImportRead" THEN "ImportRead" ELSE "Read",
                        NoEnvironmentConfig, envState)
    /\ LET id == ValueString(envState.id)
       IN  \E err \in {Do(r, TRUE, FALSE) : r \in EnvironmentAnswers(id)} :
             /\ envCalls' = <<EnvironmentCall("get", id)>>
             /\ IF err = NoErr
                THEN /\ envState' = EnvironmentRefreshed(envState, envBackend)
                     /\ envDiag' = NoDiag
                ELSE IF IsNotFound(err)
                THEN /\ envState' = NoEnvironment
                     /\ envDiag' = NoDiag
                ELSE /\ envDiag' = Diag("Failed to read environment", err)
                     /\ envState' = IF EnvironmentForced = "ImportRead"
                                    THEN NoEnvironment ELSE envState
    /\ UNCHANGED <<envBackend, envKeys, deployVars, clientVars, dsVars>>

\* EnvironmentResource.Delete, and the framework's removal of the record when
\* Delete reports no error.
EnvironmentDelete ==
    /\ envState # NoEnvironment
    /\ EnvironmentBegin("Delete", NoEnvironmentConfig, envState)
    /\ LET id == ValueString(envState.id)
       IN  \E err \in {Do(r, FALSE, FALSE) : r \in EnvironmentAnswers(id)} :
             /\ envCalls' = <<EnvironmentCall("delete", id)>>
             /\ envBackend' = IF err = NoErr THEN NoBackendEnvironment ELSE envBackend
             /\ IF err # NoErr /\ ~IsNotFound(err)
                THEN /\ envDiag' = Diag("Failed to delete environment", err)
                     /\ UNCHANGED envState
                ELSE /\ envDiag' = NoDiag
                     /\ envState' = NoEnvironment
    /\ UNCHANGED <<envKeys, deployVars, clientVars, dsVars>>

\* The identifiers given to terraform import for an environment.
EnvironmentImportIDs == {"env-prod", "env-stage", "env-other"}

\* EnvironmentResource.ImportState: ImportStatePassthroughID on id.
EnvironmentImportState(id) ==
    /\ envState = NoEnvironment
    /\ EnvironmentBegin("ImportState", NoEnvironmentConfig,
                        [NoEnvironment EXCEPT !.id = id])
    /\ envState' = [NoEnvironment EXCEPT !.id = id]
    /\ envCalls' = <<>>
    /\ envDiag' = NoDiag
    /\ UNCHANGED <<envBackend, envKeys, deployVars, clientVars, dsVars>>

\* The environment is deleted at the backend outside Terraform.
EnvironmentRemovedOutside ==
    /\ envBackend.exists
    /\ EnvironmentForced = "any"
    /\ envBackend' = NoBackendEnvironment
    /\ envOp' = "RemovedOutside"
    /\ envDesired' = NoEnvironmentConfig
    /\ envData' = NoEnvironment
    /\ envPrior' = envState
    /\ envCalls' = <<>>
    /\ envDiag' = NoDiag
    /\ UNCHANGED <<envState, envKeys, deployVars, clientVars, dsVars>>

EnvNext ==
    \/ \E cfg \in EnvironmentConfigs : EnvironmentCreate(cfg)
    \/ \E cfg \in EnvironmentConfigs : EnvironmentUpdate(cfg)
    \/ \E cfg \in EnvironmentConfigs : EnvironmentNoChanges(cfg)
    \/ EnvironmentRead
    \/ EnvironmentDelete
    \/ \E id \in EnvironmentImportIDs : EnvironmentImportState(id)
    \/ EnvironmentRemovedOutside

\* The environment resource alone, over a backend whose projects all run.
EnvInit == Init /\ backend = [p \in ProjectIDs |-> "running"]

EnvSpec == EnvInit /\ [][EnvNext]_vars

\* --------------------------------------------------------- the client alone

\* The status codes a response may carry; 0 stands for no response at all.
StatusCodes == {0, 200, 204, 399, 400, 404, 500}

\* Every response Client.Do may be handed.
AllResponses == [code : StatusCodes, body : Bodies]

\* One call of Client.Do.
ClientDo(resp, hasResult, cancelled) ==
    /\ httpResp' = resp
    /\ doHasResult' = hasResult
    /\ doCancelled' = cancelled
    /\ doErr' = Do(resp, hasResult, cancelled)
    /\ doOp' = "Do"
    /\ UNCHANGED <<deployVars, envVars, dsVars>>

\* A caller wraps the error Do returned, as waitForAgent wraps the last
\* probe error with %w.
ClientWrap ==
    /\ doOp = "Do"
    /\ doErr # NoErr
    /\ doErr' = TimeoutErr(doErr)
    /\ doOp' = "Wrap"
    /\ UNCHANGED <<httpResp, doHasResult, doCancelled, deployVars, envVars, dsVars>>

ClientNext ==
    \/ \E resp \in AllResponses, hasResult \in BOOLEAN, cancelled \in BOOLEAN :
          ClientDo(resp, hasResult, cancelled)
    \/ ClientWrap

ClientInit == Init /\ backend = [p \in ProjectIDs |-> "running"]

ClientSpec == ClientInit /\ [][ClientNext]_vars

\* ------------------------------- the project status data source: actions

\* client.ProjectService values and the service lists a project may hold.
ServiceLists ==
    LET web == [name |-> "web", status |-> "running", image |-> "nginx"]
        db == [name |-> "db", status |-> "stopped", image |-> ""]
    IN  {<<>>, <<web>>, <<web, db>>}

\* The projects the backend may hold.
Projects ==
    [name : {"webapp"}, status : Statuses, path : {"", "/opt/webapp"},
     services : ServiceLists]

\* client.ContainerDetail values and the lists the containers call may
\* report.
ContainerLists ==
    LET c1 == [id |-> "c1", name |-> "webapp-web-1", image |-> "nginx",
               status |-> "running", health |-> "healthy",
               ports |-> <<[host_port |-> 8080, container_port |-> 80,
                            protocol |-> "tcp"]>>]
        c2 == [id |-> "c2", name |-> "webapp-db-1", image |-> "",
               status |-> "exited", health |-> "", ports |-> <<>>]
    IN  {<<>>, <<c1>>, <<c1, c2>>}

\* The backend's project and containers change.
ProjectStatusBackend(project, containers) ==
    /\ dsProject' = project
    /\ dsContainers' = containers
    /\ dsOp' = "Backend"
    /\ UNCHANGED <<dsData, dsCalls, dsErrs, dsDiag, deployVars, envVars, clientVars>>

\* One backend call of the data source and what it returned.
StatusCall(kind, returned) ==
    [kind |-> kind, env |-> "env1", project |-> "proj1", returned |-> returned]

\* The containers attribute built from the project's services.
FromServices(services) ==
    [i \in DOMAIN services |->
        [id |-> "", name |-> services[i].name, image |-> services[i].image,
         status |-> services[i].status, health |-> "", ports |-> <<>>]]

\* The containers attribute built from the containers call's answer.
FromContainers(containers) ==
    [i \in DOMAIN containers |->
        [id |-> containers[i].id, name |-> containers[i].name,
         image |-> containers[i].image, status |-> containers[i].status,
         health |-> containers[i].health, ports |-> containers[i].ports]]

\* FallsBack that also falls back when the containers call returns no
\* container.
FallsBackOnEmpty(err, containers) == err # NoErr \/ containers = <<>>

\* Whether Read builds the containers from the project's services.
FallsBack(err, containers) == err # NoErr

\* The containers attribute Read stores.
ContainersAttribute(err, project, containers) ==
    IF FallsBack(err, containers)
    THEN IF Len(project.services) > 0 THEN ListOf(FromServices(project.services))
         ELSE NullList
    ELSE IF Len(containers) > 0 THEN ListOf(FromContainers(containers))
         ELSE NullList

\* What the containers call may be answered: what the project call may, or
\* a success with no body.
ContainerAnswers == Responses \cup {[code |-> 200, body |-> "empty"]}

\* ProjectStatusDataSource.Read
ProjectStatusRead ==
    /\ dsOp' = "Read"
    /\ \E e1 \in {Do(r, TRUE, FALSE) :
                     r \in IF dsProject = NoProject
                           THEN {r2 \in Responses : r2.code # 200}
                           ELSE Responses} :
         IF e1 # NoErr
         THEN /\ dsCalls' = <<StatusCall("get", <<>>)>>
              /\ dsErrs' = <<e1>>
              /\ dsDiag' = Diag("Failed to read project status", e1)
              /\ dsData' = NoStatusData
         ELSE \E r \in ContainerAnswers :
                LET e2 == Do(r, TRUE, FALSE)
                    containers == IF e2 = NoErr /\ r.body # "empty"
                                  THEN dsContainers ELSE <<>>
                IN  /\ dsCalls' = <<StatusCall("get", <<>>),
                                    StatusCall("containers", containers)>>
                    /\ dsErrs' = <<e1, e2>>
                    /\ dsDiag' = NoDiag
                    /\ dsData' =
                         [environment_id |-> "env1", project_id |-> "proj1",
                          name |-> dsProject.name, status |-> dsProject.status,
                          path |-> IF dsProject.path # "" THEN dsProject.path
                                   ELSE Null,
                          containers |->
                              ContainersAttribute(e2, dsProject, containers)]
    /\ UNCHANGED <<dsProject, dsContainers, deployVars, envVars, clientVars>>

StatusNext ==
    \/ \E project \in Projects, containers \in ContainerLists :
          ProjectStatusBackend(project, containers)
    \/ ProjectStatusRead

StatusInit == Init /\ backend = [p \in ProjectIDs |-> "running"]

StatusSpec == StatusInit /\ [][StatusNext]_vars

\* ------------------------------------------------------------------- claims

\* The number of calls of one kind the operation has issued.
NumCalls(kind) == Cardinality({i \in DOMAIN calls : calls[i].kind = kind})

\* The desired configuration differs from the record in the trigger map or
\* in one of pull, force_recreate, remove_orphans.
OptionsDiffer(cfg, st) ==
    \/ cfg.triggers # st.triggers
    \/ WithDefault(cfg.pull, "false") # st.pull
    \/ WithDefault(cfg.force_recreate, "false") # st.force_recreate
    \/ WithDefault(cfg.remove_orphans, "false") # st.remove_orphans

\* waitForAgent returned its timeout error and Create has ended.
TimedOut ==
    /\ op = "Create"
    /\ pc = "idle"
    /\ diag.detail.type = "timed out waiting for agent"

LastSleep == IF sleeps = <<>> THEN 0 ELSE sleeps[Len(sleeps)]

\* C1: a configuration applied with no stored record always runs Create,
\* never Update or a no-op; Create issues no redeploy call, and once its
\* reachability wait has succeeded it has issued exactly one up call, for the
\* planned project with the planned pull, force_recreate and remove_orphans.
C1_CreateDeploysOnce ==
    /\ (prior = NoState /\ desired # NoConfig) => op = "Create"
    /\ op = "Create" => NumCalls("redeploy") = 0
    /\ (op = "Create" /\ pc = "idle" /\ firstOk # 0) =>
         /\ NumCalls("up") = 1
         /\ \A i \in DOMAIN calls :
              calls[i].kind = "up" =>
                /\ calls[i].env = data.environment_id
                /\ calls[i].project = data.project_id
                /\ calls[i].pull = (data.pull = "true")
                /\ calls[i].force_recreate = (data.force_recreate = "true")
                /\ calls[i].remove_orphans = (data.remove_orphans = "true")

C1_Witness ==
    /\ op = "Create"
    /\ pc = "idle"
    /\ nprobes >= 2
    /\ NumCalls("up") = 1
    /\ data.force_recreate = "true"
    /\ state # NoState

\* C2: when the desired configuration differs from the stored record in the
\* trigger map or in pull, force_recreate or remove_orphans, the pass is an
\* Update that issues exactly one redeploy call, with the desired options,
\* and on success stores the desired triggers and options, the status the
\* backend holds and the time of the store as last_deployed_at.
C2_RedeployOnChange ==
    (op \in {"Update", "NoOp"} /\ OptionsDiffer(desired, prior)) =>
        /\ op = "Update"
        /\ NumCalls("redeploy") = 1
        /\ NumCalls("up") = 0
        /\ NumCalls("down") = 0
        /\ calls[1].kind = "redeploy"
        /\ calls[1].env = prior.environment_id
        /\ calls[1].project = prior.project_id
        /\ calls[1].pull = (WithDefault(desired.pull, "false") = "true")
        /\ calls[1].force_recreate = (WithDefault(desired.force_recreate, "false") = "true")
        /\ calls[1].remove_orphans = (WithDefault(desired.remove_orphans, "false") = "true")
        /\ diag = NoDiag =>
             /\ state.triggers = desired.triggers
             /\ state.pull = WithDefault(desired.pull, "false")
             /\ state.force_recreate = WithDefault(desired.force_recreate, "false")
             /\ state.remove_orphans = WithDefault(desired.remove_orphans, "false")
             /\ state.status = backend[prior.project_id]
             /\ state.last_deployed_at = RFC3339(now)
             /\ state.id = prior.id

C2_Witness ==
    /\ op = "Update"
    /\ diag = NoDiag
    /\ prior.triggers = MapOf({<<"compose", "v1">>})
    /\ desired.triggers = MapOf({<<"compose", "v2">>})
    /\ state.triggers = desired.triggers
    /\ state.last_deployed_at # prior.last_deployed_at
    /\ NumCalls("redeploy") = 1

\* C3: over all attributes of the desired configuration, a redeploy call is
\* issued if and only if the trigger map or one of pull, force_recreate,
\* remove_orphans differs from the stored record; otherwise the pass issues
\* no call and leaves last_deployed_at as it was.
C3_RedeployIffOptionsDiffer ==
    op \in {"Update", "NoOp"} =>
        /\ NumCalls("redeploy") > 0 <=> OptionsDiffer(desired, prior)
        /\ ~OptionsDiffer(desired, prior) =>
             /\ calls = <<>>
             /\ state.last_deployed_at = prior.last_deployed_at

\* C4: Delete of a record whose stop_on_delete is not true issues no backend
\* call, removes the record and leaves the backend's statuses as they were.
C4_DeleteWithoutStop ==
    (op = "Delete" /\ prior.stop_on_delete # "true") =>
        /\ calls = <<>>
        /\ state = NoState
        /\ diag = NoDiag
        /\ backend = backend0
        /\ now <= MaxStart

C4_Witness ==
    /\ op = "Delete"
    /\ prior # NoState
    /\ prior.stop_on_delete = "false"
    /\ state = NoState
    /\ calls = <<>>
    /\ \E p \in ProjectIDs : prior.project_id = p /\ backend[p] = "running"

\* C5: Delete of a record whose stop_on_delete is true issues exactly one
\* call, a down call for the record's project; when it returns no error or
\* a not-found error (an APIError of status 404) Delete reports nothing and
\* the record is removed; on any other error the error is reported and the
\* record stays as it was.
C5_DeleteWithStop ==
    (op = "Delete" /\ prior.stop_on_delete = "true") =>
        /\ Len(calls) = 1
        /\ calls[1].kind = "down"
        /\ calls[1].env = prior.environment_id
        /\ calls[1].project = prior.project_id
        /\ IF lastErr.type = "nil" \/ (lastErr.type = "APIError" /\ lastErr.status = 404)
           THEN state = NoState /\ diag = NoDiag
           ELSE state = prior /\ diag = Diag("Failed to stop project", lastErr)

C5_Witness ==
    /\ op = "Delete"
    /\ prior.stop_on_delete = "true"
    /\ lastErr.type = "APIError"
    /\ lastErr.status = 404
    /\ state = NoState
    /\ diag = NoDiag

\* C6: the n-th sleep of the reachability wait lasts min(5 * 2^(n-1), 30)
\* seconds: 5, 10, 20, 30, 30, ...
C6_BackoffSequence ==
    \A n \in 1..Len(sleeps) : sleeps[n] = Min(5 * 2^(n - 1), 30)

C6_Witness == Len(sleeps) >= 5 /\ sleeps[5] = 30 /\ sleeps[3] = 20

\* C7: while no probe of the reachability wait has succeeded and the context
\* is not cancelled, the wait never issues more than timeout / 5 + 2 probes,
\* always has a next step while it runs, and never goes on to deploy; when
\* it has ended, Create reports "Agent not reachable" with the timeout error
\* that wraps the error of the last probe, has issued nothing but the
\* probes, and has stored no record.
C7_FailingProbeTimesOut ==
    (op = "Create" /\ firstOk = 0 /\ ~ctxDone) =>
        /\ nprobes <= (timeout \div 5) + 2
        /\ pc # "deploy"
        /\ pc \in {"probe", "select"} => ENABLED (waitForAgentProbe \/ waitForAgentSelect)
        /\ pc = "idle" =>
             /\ diag.summary = "Agent not reachable"
             /\ diag.detail.type = "timed out waiting for agent"
             /\ diag.detail.wrapped = lastErr.type
             /\ diag.detail.wstatus = lastErr.status
             /\ lastErr.type # "nil"
             /\ NumCalls("get") = nprobes
             /\ Len(calls) = nprobes
             /\ state = NoState

C7_Witness ==
    /\ op = "Create"
    /\ pc = "idle"
    /\ firstOk = 0
    /\ ~ctxDone
    /\ nprobes >= 3
    /\ diag.detail.wrapped = "APIError"
    /\ diag.detail.wstatus = 500

\* C8 as stated: with a 1-second timeout the timeout error is returned
\* within about a second of the start (before even one backoff interval of
\* 5 s has gone by), and in general it is returned after the deadline and
\* no later than the deadline plus one backoff interval.
C8_TimeoutWithinOneBackoff ==
    TimedOut =>
        /\ timeout = 1 => now - startTime < InitialBackoff
        /\ now > deadline
        /\ now <= deadline + LastSleep

\* C8 as amended: the timeout error is returned after the deadline and,
\* for a timeout that is not negative, no later than the deadline plus the
\* last backoff interval plus the duration of the probe that followed it
\* (for a zero or negative timeout, right after the first probe); with a
\* 1-second timeout it is returned either right after a first probe that
\* outlasted the timeout or after one full sleep of 5 s and a second probe.
C8_TimeoutWindow ==
    TimedOut =>
        /\ now > deadline
        /\ timeout >= 0 => now <= deadline + LastSleep + MaxProbeDur
        /\ timeout <= 0 => (sleeps = <<>> /\ nprobes = 1
                               /\ now <= startTime + MaxProbeDur)
        /\ timeout = 1 =>
             \/ sleeps = <<>> /\ nprobes = 1 /\ now - startTime > 1
             \/ sleeps = <<5>> /\ nprobes = 2 /\ now - startTime > 5

C8_Witness ==
    /\ TimedOut
    /\ timeout = 1
    /\ sleeps = <<5>>
    /\ now - startTime >= 7

\* C9: once a probe of the reachability wait has succeeded, the wait is
\* over: that probe is the last one issued, every sleep came before it, and
\* Create has moved on.
C9_StopsAtFirstSuccess ==
    firstOk # 0 =>
        /\ nprobes = firstOk
        /\ Len(sleeps) = firstOk - 1
        /\ pc \in {"deploy", "idle"}
        /\ lastErr.type = "nil" \/ pc = "idle"

C9_Witness == firstOk = 3 /\ pc = "deploy" /\ Len(calls) = 3

\* C10: when the context is cancelled during a sleep of the reachability
\* wait, the wait ends at once with the cancellation error: the sleep is not
\* completed, no further probe and no up call is issued, no record is
\* stored, and Create reports "Agent not reachable" at the time of the
\* cancellation.
C10_CancelDuringSleep ==
    cancelAt = "select" =>
        /\ pc \in {"select", "idle"}
        /\ nprobes = Len(sleeps) + 1
        /\ Len(calls) = nprobes
        /\ NumCalls("up") = 0
        /\ state = NoState
        /\ now = cancelTime
        /\ pc = "idle" => diag = Diag("Agent not reachable", CtxErr)

C10_Witness ==
    /\ cancelAt = "select"
    /\ pc = "idle"
    /\ Len(sleeps) >= 1
    /\ now = cancelTime
    /\ diag.detail = CtxErr

\* The environment or project of the configuration differs from the record's.
IdsDiffer(cfg, st) ==
    \/ cfg.environment_id # st.environment_id
    \/ cfg.project_id # st.project_id

\* C11: an Update is only ever run with the environment and project of the
\* stored record, and all its calls go to them; a configuration whose
\* environment_id or project_id differs from the stored record's is applied
\* as a replacement, which issues no up and no redeploy call under the old
\* record and, once the old record is destroyed, is followed by nothing but
\* the Create of the new configuration.
C11_ReplaceOnIdChange ==
    /\ [](op = "Update" =>
            /\ ~IdsDiffer(data, prior)
            /\ ~IdsDiffer(desired, prior)
            /\ \A i \in DOMAIN calls :
                 /\ calls[i].env = prior.environment_id
                 /\ calls[i].project = prior.project_id)
    /\ []((op = "Replace" /\ diag = NoDiag) =>
            /\ state = NoState
            /\ ENABLED Create(desired))
    /\ [][/\ (pc = "idle" /\ Forced = "any" /\ state # NoState
                /\ desired' # NoConfig /\ IdsDiffer(desired', state)) =>
                /\ op' = "Replace"
                /\ \A i \in DOMAIN calls' : calls'[i].kind = "down"
                /\ state' \in {NoState, state}
          /\ Forced = "Create" =>
                /\ op' = "Create"
                /\ desired' = desired
                /\ prior' = NoState
                /\ ~IdsDiffer(data', desired)]_vars

C11_Witness ==
    /\ op = "Replace"
    /\ diag = NoDiag
    /\ state = NoState
    /\ prior.project_id = "proj1"
    /\ desired.project_id = "proj2"
    /\ prior.environment_id = desired.environment_id

\* C12: every stored record's id is its environment_id, "/", its project_id.
C12_CompositeID ==
    state # NoState =>
        state.id = state.environment_id \o "/" \o state.project_id

C12_Witness ==
    /\ op = "Update"
    /\ diag = NoDiag
    /\ prior.last_deployed_at = Null
    /\ state.last_deployed_at # Null
    /\ state.id = "env1/proj2"

\* C13: importing the id of a record that Create stored and that has just
\* been destroyed yields a record with that id, environment_id and
\* project_id.
C13_ImportRoundTrip ==
    [][(/\ op = "Delete"
        /\ state = NoState
        /\ prior.last_deployed_at # Null
        /\ op' = "ImportState"
        /\ data'.id = prior.id) =>
          /\ diag' = NoDiag
          /\ state'.id = prior.id
          /\ state'.environment_id = prior.environment_id
          /\ state'.project_id = prior.project_id]_vars

\* C14: a Read issues one project GET; when it returns a not-found error (an
\* APIError of status 404) the record is removed and nothing is reported; on
\* any other error the error is reported and the record stays as it was.
C14_ReadErrors ==
    (op = "Read" /\ lastErr # NoErr) =>
        /\ Len(calls) = 1
        /\ calls[1].kind = "get"
        /\ calls[1].project = prior.project_id
        /\ IF lastErr.type = "APIError" /\ lastErr.status = 404
           THEN state = NoState /\ diag = NoDiag
           ELSE /\ state = prior
                /\ diag = Diag("Failed to get project status", lastErr)

C14_Witness ==
    /\ op = "Read"
    /\ lastErr = Err("APIError", 404)
    /\ prior.last_deployed_at # Null
    /\ state = NoState
    /\ diag = NoDiag

\* C15: a Read that succeeds leaves every attribute but status as stored,
\* and every configuration that was a no-op over the record before the Read
\* is a no-op over it after the Read.
C15_ReadChangesOnlyStatus ==
    (op \in {"Read", "ImportRead"} /\ lastErr = NoErr) =>
        /\ state = [prior EXCEPT !.status = state.status]
        /\ \A cfg \in Configs :
             Decide(cfg, prior) = "NoOp" => Decide(cfg, state) = "NoOp"

C15_Witness ==
    /\ op = "Read"
    /\ lastErr = NoErr
    /\ prior.status = "running"
    /\ state.status = "stopped"
    /\ state.last_deployed_at = prior.last_deployed_at
    /\ \E cfg \in Configs : Decide(cfg, prior) = "NoOp"

\* C16: when the up call of Create or the redeploy call of Update returns an
\* error, it is the operation's last call and its only up or redeploy call,
\* the error is reported under the operation's summary, and the stored
\* record and the backend are as they were before the operation.
C16_DeployErrorStops ==
    (op \in {"Create", "Update"} /\ deployErr # NoErr) =>
        /\ pc = "idle"
        /\ Len(calls) = nprobes + 1
        /\ calls[Len(calls)].kind = (IF op = "Create" THEN "up" ELSE "redeploy")
        /\ NumCalls("up") + NumCalls("redeploy") = 1
        /\ diag = Diag(IF op = "Create" THEN "Failed to deploy project"
                                        ELSE "Failed to redeploy project", deployErr)
        /\ state = prior
        /\ backend = backend0

C16_Witness ==
    /\ op = "Update"
    /\ deployErr = Err("APIError", 500)
    /\ state = prior
    /\ state.status = "running"
    /\ desired.triggers # prior.triggers

\* A Create or Update has ended with an error.
Failed == op \in {"Create", "Update"} /\ pc = "idle" /\ diag # NoDiag

\* C17: after a Create or Update that failed, the stored record is the one
\* from before the operation and the same configuration is again decided as
\* that operation; the next pass with the same configuration runs that
\* operation again, a Create starting its wait anew and an Update issuing its
\* redeploy call.
C17_FailedChangeRetried ==
    /\ [](Failed => (state = prior /\ Decide(desired, state) = op))
    /\ [][(Failed /\ desired' = desired) =>
            /\ op' = op
            /\ op' = "Create" => pc' = "probe"
            /\ op' = "Update" =>
                 \E i \in DOMAIN calls' : calls'[i].kind = "redeploy"]_vars

C17_Witness ==
    /\ Failed
    /\ op = "Update"
    /\ diag.summary = "Failed to get project status"
    /\ deployErr = NoErr
    /\ backend # backend0
    /\ Decide(desired, state) = "Update"

\* C18: the status of a stored record is null only while an import has not
\* been read, and is otherwise a status of the backend; after a Create,
\* Update or Read that succeeded it is the status the backend holds for the
\* record's project.
C18_StatusIsBackendTruth ==
    /\ (state # NoState /\ state.status = Null) => op = "ImportState"
    /\ state.status \in Statuses \cup {Null}
    /\ (op \in {"Create", "Update", "Read", "ImportRead"} /\ pc = "idle"
          /\ diag = NoDiag /\ state # NoState) =>
         state.status = backend[state.project_id]

C18_Witness ==
    /\ op = "Create"
    /\ pc = "idle"
    /\ diag = NoDiag
    /\ backend0[data.project_id] = "stopped"
    /\ state.status = "running"
    /\ backend[data.project_id] = "running"

\* The calls of the operation that are not probes of its wait.
CallsAfterWait == Len(calls) - nprobes

\* C19 as stated: an operation issues its probes first and at most one call
\* after them.
C19_AtMostOneCallAfterWait ==
    op \in {"Create", "Update", "Delete", "Replace"} =>
        /\ \A i \in 1..nprobes : calls[i].kind = "get"
        /\ CallsAfterWait <= 1

\* C19 as amended: only Create waits, and its probes come before every other
\* call; after them an operation issues at most two calls: one up, redeploy
\* or down call and, when an up or redeploy call returned no error, one
\* project GET; then it returns.
C19_WaitThenAtMostTwoCalls ==
    op \in {"Create", "Update", "Delete", "Replace"} =>
        /\ op # "Create" => (nprobes = 0 /\ sleeps = <<>>)
        /\ \A i \in 1..nprobes : calls[i].kind = "get"
        /\ CallsAfterWait \in 0..2
        /\ CallsAfterWait >= 1 =>
             /\ pc = "idle"
             /\ calls[nprobes + 1].kind =
                  (CASE op = "Create" -> "up"
                     [] op = "Update" -> "redeploy"
                     [] OTHER -> "down")
             /\ op = "Create" => firstOk = nprobes
        /\ CallsAfterWait = 2 =>
             /\ op \in {"Create", "Update"}
             /\ deployErr = NoErr
             /\ calls[nprobes + 2].kind = "get"

C19_Witness ==
    /\ op = "Create"
    /\ pc = "idle"
    /\ Len(sleeps) >= 1
    /\ CallsAfterWait = 2
    /\ calls[Len(calls)].kind = "get"
    /\ calls[Len(calls) - 1].kind = "up"

\* The number of environment calls of one kind the operation has issued.
NumEnvironmentCalls(kind) ==
    Cardinality({i \in DOMAIN envCalls : envCalls[i].kind = kind})

\* regenerate_access_token as the configuration asks for it.
DesiredRegenerate == WithDefault(envDesired.regenerate_access_token, "false") = "true"

\* C20: an Update of an environment issues one regenerate call when the
\* configuration's regenerate_access_token is true and the stored one is not
\* true, and none otherwise; when the flag stays true or goes back to false
\* and the Update succeeds, the stored access_token is the one from before.
C20_RegenerateOnRisingFlag ==
    envOp = "Update" =>
        /\ NumEnvironmentCalls("regenerate") =
             (IF DesiredRegenerate /\ envPrior.regenerate_access_token # "true"
              THEN 1 ELSE 0)
        /\ \A i \in DOMAIN envCalls :
             envCalls[i].kind = "regenerate" => (i = 1 /\ envCalls[i].id = envPrior.id)
        /\ (envPrior.regenerate_access_token = "true" /\ envDiag = NoDiag) =>
             envState.access_token = envPrior.access_token

C20_Witness ==
    /\ envOp = "Update"
    /\ envDiag = NoDiag
    /\ envPrior.regenerate_access_token = "true"
    /\ DesiredRegenerate
    /\ envPrior.name = "prod"
    /\ envState.name = "stage"
    /\ NumEnvironmentCalls("regenerate") = 0
    /\ NumEnvironmentCalls("update") = 1
    /\ envState.access_token = "arc_2"

\* C21: Create of an environment issues the create call and then, only when
\* it succeeded, exactly one regenerate call for the new environment's id;
\* the stored access_token is the regenerated key when it is not empty,
\* otherwise the create response's access token, otherwise null; when either
\* call fails an error is reported and no record is stored.
C21_CreateThenRegenerate ==
    envOp = "Create" =>
        /\ Len(envCalls) \in {1, 2}
        /\ envCalls[1].kind = "create"
        /\ NumEnvironmentCalls("create") = 1
        /\ (envDiag.summary = "Failed to create environment") <=> (Len(envCalls) = 1)
        /\ Len(envCalls) = 2 =>
             /\ envCalls[2].kind = "regenerate"
             /\ envBackend.exists
             /\ envCalls[2].id = envBackend.id
        /\ envDiag # NoDiag => envState = NoEnvironment
        /\ envDiag = NoDiag =>
             /\ Len(envCalls) = 2
             /\ envState # NoEnvironment
             /\ envState.access_token =
                  (IF envBackend.apiKey # "" THEN envBackend.apiKey
                   ELSE IF envBackend.access_token # "" THEN envBackend.access_token
                   ELSE Null)

C21_Witness ==
    /\ envOp = "Create"
    /\ envDiag = NoDiag
    /\ Len(envCalls) = 2
    /\ envBackend.access_token = "mock-token-prod"
    /\ envBackend.apiKey = "arc_1"
    /\ envState.access_token = "arc_1"

\* The stored record st holds what the backend's environment env holds in
\* name, api_url, description and use_api_key (an empty description is
\* stored as null or as the empty string).
StateMatchesBackend(st, env) ==
    /\ st.name = env.name
    /\ st.api_url = env.api_url
    /\ ValueString(st.description) = env.description
    /\ ValueBool(st.use_api_key) = env.use_api_key

\* C29: after every successful Update of an environment the stored name,
\* api_url, description and use_api_key are those the backend holds.
C29_UpdateKeepsStateAtBackend ==
    (envOp = "Update" /\ envDiag = NoDiag /\ StateMatchesBackend(envPrior, envBackend))
        => StateMatchesBackend(envState, envBackend)

\* C30: Read never changes the stored access_token; a successful Update
\* that issues no regenerate call stores the access_token of the prior
\* state, a failed one leaves the record alone; and no Update replaces a
\* stored token by null or unknown.
C30_AccessTokenKept ==
    /\ (envOp \in {"Read", "ImportRead"} /\ envState # NoEnvironment) =>
           envState.access_token = envPrior.access_token
    /\ envOp = "Update" =>
           /\ envState.access_token # Unknown
           /\ envDiag # NoDiag => envState = envPrior
           /\ (envDiag = NoDiag /\ NumEnvironmentCalls("regenerate") = 0) =>
                  envState.access_token = envPrior.access_token
           /\ envPrior.access_token # Null => envState.access_token # Null

C30_Witness ==
    /\ envOp = "Update"
    /\ envDiag = NoDiag
    /\ NumEnvironmentCalls("regenerate") = 0
    /\ NumEnvironmentCalls("update") = 1
    /\ envData.access_token = Unknown
    /\ envPrior.access_token = Null
    /\ envState.access_token = Null
    /\ envState.name # envPrior.name

\* The response reached Do and carries an error status.
ErrorResponse == ~doCancelled /\ httpResp.code >= StatusErrorFloor

\* C22 as stated: Do returns an error for every response with status >= 400;
\* IsNotFound holds exactly of an error that is an APIError with status 404;
\* an error response whose body is not a JSON object of the error's shape
\* yields a plain error that is never not-found; an error that is no APIError
\* is never not-found.
C22_PlainErrorUnlessErrorObject ==
    doOp \in {"Do", "Wrap"} =>
        /\ httpResp.code >= StatusErrorFloor => doErr # NoErr
        /\ IsNotFound(doErr) <=> AsAPIError(doErr) = StatusNotFound
        /\ (ErrorResponse /\ httpResp.body # "object") =>
               /\ AsAPIError(doErr) = 0
               /\ ~IsNotFound(doErr)
        /\ AsAPIError(doErr) = 0 => ~IsNotFound(doErr)

\* C22: Do returns an error for every response with status >= 400;
\* IsNotFound holds exactly of an error that is, or wraps, an APIError with
\* status 404; an error response whose body json.Unmarshal cannot decode
\* (text, an empty body, an array, an object with a mistyped member) yields a
\* plain error that is never not-found, while a body that is a JSON object or
\* the literal null yields an APIError with the response's status; an error
\* that holds no APIError is never not-found.
C22_DoErrorsAndNotFound ==
    doOp \in {"Do", "Wrap"} =>
        /\ httpResp.code >= StatusErrorFloor => doErr # NoErr
        /\ IsNotFound(doErr) <=> AsAPIError(doErr) = StatusNotFound
        /\ IsNotFound(doErr) <=>
               (ErrorResponse /\ httpResp.code = StatusNotFound
                              /\ httpResp.body \in {"object", "null"})
        /\ (ErrorResponse /\ httpResp.body \in {"mistyped", "array", "text", "empty"}) =>
               /\ AsAPIError(doErr) = 0
               /\ ~IsNotFound(doErr)
        /\ (ErrorResponse /\ httpResp.body \in {"object", "null"}) =>
               AsAPIError(doErr) = httpResp.code
        /\ AsAPIError(doErr) = 0 => ~IsNotFound(doErr)

C22_Witness ==
    /\ doOp = "Do"
    /\ httpResp = [code |-> 404, body |-> "text"]
    /\ ~doCancelled
    /\ doErr = Err("API error", 404)
    /\ ~IsNotFound(doErr)

C23_UpdatePlansUnknownTimestamp ==
    /\ op = "Update" => data.last_deployed_at = Unknown
    /\ (op \in {"Update", "NoOp"} /\ ~OptionsDiffer(desired, prior)
          /\ prior.last_deployed_at # Null) =>
           data.last_deployed_at = prior.last_deployed_at
    /\ (op = "Update" /\ diag = NoDiag /\ data.last_deployed_at # Unknown) =>
           state.last_deployed_at = data.last_deployed_at

\* C24: in Create the up call is issued only after a probe of the same
\* invocation returned without error, and it is the call right after that
\* probe; a probe that returned an error, a not-found one included, leads to
\* the sleep before another probe or to the timeout, never to the up call.
C24_UpOnlyAfterProbeSucceeded ==
    op = "Create" =>
        /\ pc = "deploy" => (lastErr = NoErr /\ nprobes >= 1 /\ firstOk = nprobes)
        /\ pc = "select" => (lastErr # NoErr /\ firstOk = 0)
        /\ firstOk = 0 => NumCalls("up") = 0
        /\ NumCalls("up") > 0 =>
             /\ nprobes >= 1
             /\ firstOk = nprobes
             /\ \A i \in 1..nprobes : calls[i].kind = "get"
             /\ calls[nprobes + 1].kind = "up"
             /\ NumCalls("up") = 1
        /\ (pc = "idle" /\ lastErr # NoErr /\ firstOk = 0) => diag # NoDiag

C24_Witness ==
    /\ op = "Create"
    /\ pc = "idle"
    /\ diag.detail = TimeoutErr(Err("APIError", StatusNotFound))
    /\ nprobes = 2
    /\ NumCalls("up") = 0
    /\ state = NoState

\* C25: the reachability wait issues a probe before anything else, whatever
\* the timeout, zero and negative ones included; it returns the timeout
\* error only after a probe that failed, so a probe that succeeds ends the
\* wait with success even when the deadline has passed; and every sleep
\* lasts the full backoff, also when less than that remains to the deadline.
C25_ProbeBeforeDeadline ==
    op = "Create" =>
        /\ pc # "probe" => nprobes >= 1
        /\ pc = "probe" => nprobes = Len(sleeps)
        /\ TimedOut => (diag.detail.wrapped # "nil" /\ firstOk = 0 /\ now > deadline)
        /\ firstOk > 0 =>
             /\ pc \in {"deploy", "idle"}
             /\ diag.summary # "Agent not reachable"
        /\ \A n \in DOMAIN sleeps : sleeps[n] \in {5, 10, 20, 30}
        /\ (sleeps # <<>> /\ timeout < InitialBackoff) =>
             startTime + sleeps[1] > deadline

C25_Witness ==
    /\ op = "Create"
    /\ timeout = -1
    /\ deadline < startTime
    /\ nprobes = 1
    /\ firstOk = 1
    /\ pc = "idle"
    /\ diag = NoDiag
    /\ NumCalls("up") = 1
    /\ state # NoState

\* C26: the timeout Create waits with is the duration wait_timeout spells
\* when it is a valid duration, and 120 seconds when it is left out, empty
\* or not a duration; a wait_timeout that is not a duration is reported as
\* no error, and the up call follows the first probe that succeeds.
C26_EffectiveWaitTimeout ==
    op = "Create" =>
        /\ desired.wait_timeout = "1s" => timeout = 1
        /\ desired.wait_timeout = "0s" => timeout = 0
        /\ desired.wait_timeout = "-1s" => timeout = -1
        /\ desired.wait_timeout = "2m" => timeout = 120
        /\ desired.wait_timeout \in {Null, "", "bogus"} => timeout = 120
        /\ deadline = startTime + timeout
        /\ desired.wait_timeout \in {"", "bogus"} =>
             /\ diag # NoDiag => (lastErr # NoErr \/ ctxDone)
             /\ (pc = "idle" /\ firstOk > 0) => NumCalls("up") = 1

C26_Witness ==
    /\ op = "Create"
    /\ desired.wait_timeout = "bogus"
    /\ data.wait_timeout = "bogus"
    /\ timeout = 120
    /\ pc = "idle"
    /\ diag = NoDiag
    /\ NumCalls("up") = 1
    /\ state.wait_timeout = "bogus"

\* The record st is one an import made and no Create or Update has stored
\* since: its option attributes are still null.
Imported(st) ==
    /\ st # NoState
    /\ st.pull = Null
    /\ st.force_recreate = Null
    /\ st.remove_orphans = Null
    /\ st.stop_on_delete = Null
    /\ st.wait_timeout = Null
    /\ st.triggers = NullMap
    /\ st.last_deployed_at = Null

\* What ImportState and the Read after it store.
ImportStoresIdsAndStatus ==
    /\ (op = "ImportState" /\ diag = NoDiag) =>
           /\ Imported(state)
           /\ state.status = Null
           /\ state.id \notin {Null, ""}
           /\ state.environment_id # Null
           /\ state.project_id # Null
    /\ (op = "ImportRead" /\ state # NoState) =>
           /\ Imported(state)
           /\ state.status \in Statuses
           /\ state = [prior EXCEPT !.status = state.status]

\* C28 as stated: ImportState sets only id, environment_id and project_id
\* and the Read after it only status; the first reconcile pass over an
\* imported record, for any configuration, issues a redeploy call.
C28_ImportThenRedeploy ==
    /\ ImportStoresIdsAndStatus
    /\ (op \in {"Update", "NoOp", "Replace"} /\ Imported(prior)) =>
           NumCalls("redeploy") = 1

\* C28: ImportState sets only id, environment_id and project_id and the Read
\* after it only status; the first reconcile pass over an imported record is
\* never a no-op: for a configuration of the record's environment_id and
\* project_id it is an Update, whose first call is a redeploy call, and for
\* a configuration of another environment_id or project_id it replaces the
\* record without a redeploy call.
C28_ImportNeverNoOp ==
    /\ ImportStoresIdsAndStatus
    /\ Imported(prior) => op # "NoOp"
    /\ (op = "Update" /\ Imported(prior)) =>
           /\ ~IdsDiffer(desired, prior)
           /\ NumCalls("redeploy") = 1
           /\ calls[1].kind = "redeploy"
    /\ (op = "Replace" /\ Imported(prior)) =>
           /\ IdsDiffer(desired, prior)
           /\ NumCalls("redeploy") = 0

C28_Witness ==
    /\ op = "Update"
    /\ Imported(prior)
    /\ prior.id = "env1/proj1"
    /\ prior.status \in Statuses
    /\ desired.pull = Null
    /\ calls[1].kind = "redeploy"
    /\ diag = NoDiag
    /\ state.pull = "false"
    /\ state.last_deployed_at # Null

====
